---- MODULE Spec2Model ----
(***************************************************************************)
(* Guild Wars 2 presence plugin for TeamSpeak 3 (src/src/plugin.cpp).      *)
(*                                                                         *)
(* Two threads share the module-level state of plugin.cpp:                 *)
(*   - the polling thread mumbleLinkCheckLoop, which samples the Mumble    *)
(*     Link feed, maintains the local record gw2Info and broadcasts it;    *)
(*   - the host (TeamSpeak) thread, which calls the ts3plugin_* callbacks  *)
(*     that maintain the peer cache gw2RemoteInfoContainer and answer      *)
(*     presence requests from gw2Info.                                     *)
(*                                                                         *)
(* Strings are modelled as tuples: "" is << >>, "Map " + to_string(15) is  *)
(* <<"Map", 15>>, a name delivered by the GW2 API is <<"name", id>>.       *)
(* time(NULL) is the integer clock `now` (seconds).                        *)
(***************************************************************************)
EXTENDS Integers, Sequences, FiniteSets, TLC

VARIABLES
    now,                  \* the wall clock read by time(NULL)
    \* ---- locals of mumbleLinkCheckLoop (plugin.cpp:394-402) ----
    pc,                   \* position of the polling thread: "sleep" | "lookup"
    lastTransmissionTime,
    lastOffline,
    linked,
    prevIsOnline,
    prevIdentity,
    prevAvatarPosition,
    prevDistancePosition,
    newIdentity,          \* loop-body locals, live while pc = "lookup"
    newAvatarPosition,
    \* ---- module-level state (plugin.cpp:39-47) ----
    gw2Info,
    gw2RemoteInfoContainer,
    infoDataType,
    infoDataId,
    lastUpdateCheck,
    updateThreads,        \* checkForUpdatesAsync threads created and not yet run
    threadStopRequested,
    hThread,              \* the polling thread: "running" | "exited" | "terminated"
    shutdownPc,           \* ts3plugin_shutdown: "idle" | "waiting" | "done"
    \* ---- observation of the most recent step (history, not program state) ----
    step,                 \* what the last step was and what it handed to the host
    rawHeld               \* the sampled rawOnline and for how long it has held

vars == << now, pc, lastTransmissionTime, lastOffline, linked, prevIsOnline,
           prevIdentity, prevAvatarPosition, prevDistancePosition, newIdentity,
           newAvatarPosition, gw2Info, gw2RemoteInfoContainer, infoDataType,
           infoDataId, lastUpdateCheck, updateThreads, threadStopRequested,
           hThread, shutdownPc, step, rawHeld >>

trackerVars == << pc, lastTransmissionTime, lastOffline, linked, prevIsOnline,
                  prevIdentity, prevAvatarPosition, prevDistancePosition,
                  newIdentity, newAvatarPosition >>

hostVars == << gw2RemoteInfoContainer, infoDataType, infoDataId,
               lastUpdateCheck, updateThreads >>

stopVars == << threadStopRequested, hThread, shutdownPc >>

----------------------------------------------------------------------------
(* Bounds of the model *)

\* the clock runs from StartTime to StartTime + Horizon
Horizon == 3
\* at most this many update-check threads are pending at once
MaxUpdateThreads == 1

(* Configuration (Globals::*, read at plugin.cpp:410, 456, 491-492, 507) *)
onlineStateTransmissionThreshold == 2
locationTransmissionThreshold == 3
distanceTransmissionThreshold == 2
\* checkForUpdatesAsync: "Delay update checks for an hour", scaled to the clock
updateCheckDelay == 3

\* time(NULL) when the plugin starts: seconds since 1970, far above every
\* threshold; the model keeps only that it is above them
StartTime == 4
MaxTime == StartTime + Horizon
Times == StartTime..MaxTime

Min(a, b) == IF a <= b THEN a ELSE b

----------------------------------------------------------------------------
(* Data model *)

\* Gw2Api::Vector3D / Vector2D, default-constructed to zero
Vector3D(x, y, z) == [x |-> x, y |-> y, z |-> z]
Vector2D(x, y) == [x |-> x, y |-> y]
ZeroVector3D == Vector3D(0, 0, 0)
ZeroVector2D == Vector2D(0, 0)

\* Vector3D::toVector2D: the projection drops the height axis
toVector2D(v) == Vector2D(v.x, v.z)

\* Vector2D::getDistance, squared (coordinates are integers here)
getDistanceSq(a, b) == (a.x - b.x) * (a.x - b.x) + (a.y - b.y) * (a.y - b.y)

\* getDistance(a, b) >= threshold, for a threshold >= 0
DistanceAtLeast(a, b, threshold) == getDistanceSq(a, b) >= threshold * threshold

\* avatar positions the feed can report
Positions == { Vector3D(0, 0, 0), Vector3D(1, 0, 0), Vector3D(3, 0, 0) }

\* Gw2Api::MumbleLink::MumbleIdentity
MumbleIdentity(n, p, m, w, t, c) ==
    [name |-> n, profession |-> p, map_id |-> m, world_id |-> w,
     team_color_id |-> t, commander |-> c]
DefaultIdentity == MumbleIdentity(<< >>, 0, 0, 0, 0, FALSE)

\* identities the feed can report: one character on two maps
Identities == { MumbleIdentity(<<"Ann">>, 2, 15, 1001, 9, FALSE),
                MumbleIdentity(<<"Ann">>, 2, 18, 1001, 9, TRUE) }

\* Gw2Info after Gw2Info::clear(): numeric fields zero, strings empty
ClearedInfo ==
    [characterName |-> << >>, profession |-> 0,
     mapId |-> 0, mapName |-> << >>,
     regionId |-> 0, regionName |-> << >>,
     continentId |-> 0, continentName |-> << >>,
     worldId |-> 0, worldName |-> << >>,
     teamColorId |-> 0, commander |-> FALSE,
     characterContinentPosition |-> ZeroVector2D,
     waypointId |-> 0, waypointName |-> << >>,
     waypointContinentPosition |-> ZeroVector2D]

----------------------------------------------------------------------------
(* External data sources (GW2 API), queried by the polling loop *)

\* Gw2Api::MapEntry for a map id, as Gw2Api::getMap delivers it
MapEntry(mapId) ==
    [map_name |-> <<"name", mapId>>,
     region_id |-> 4, region_name |-> <<"region", 4>>,
     continent_id |-> 1, continent_name |-> <<"continent", 1>>]

\* the ids Gw2Api::getWorldNames knows
KnownWorlds == {1001}
WorldName(worldId) == <<"world", worldId>>

\* Gw2Position(...).toContinentPosition(): the affine map of the avatar
\* position from the map rectangle into the continent rectangle (vertical
\* axis inverted); every map is given the continent origin (100*mapId, 50)
toContinentPosition(pos, mapId) ==
    Vector2D(100 * mapId + pos.x, 50 - pos.z)

\* the point-of-interest catalogue per map, in catalogue order
Waypoints(mapId) ==
    IF mapId \in {15, 18}
    THEN << [poi_id |-> 10 * mapId + 1, name |-> <<"wp", mapId, 1>>,
             coord |-> Vector2D(100 * mapId, 50)],
            [poi_id |-> 10 * mapId + 2, name |-> << >>,
             coord |-> Vector2D(100 * mapId + 3, 50)] >>
    ELSE << >>

\* getClosestWaypoint: linear scan, first encountered minimum
ClosestWaypoint(position, mapId) ==
    LET wps == Waypoints(mapId)
        best == CHOOSE i \in 1..Len(wps) :
                  /\ \A j \in 1..Len(wps) :
                        getDistanceSq(wps[i].coord, position)
                          <= getDistanceSq(wps[j].coord, position)
                  /\ \A j \in 1..(i - 1) :
                        getDistanceSq(wps[j].coord, position)
                          > getDistanceSq(wps[i].coord, position)
    IN wps[best]

----------------------------------------------------------------------------
(* What a step hands to the host: plugin commands sent, info-panel refreshes *)

\* server connection handler ids (0: no connection), client ids
ServerIds == 1..2
CurrentHandlers == 0..1
Clients == 1..2

\* Commands::sendGW2Info(handler, info, target, clientIdOrNull)
Sent(handler, info, target, client) ==
    [session |-> handler, target |-> target, client |-> client, info |-> info]

Step(act, args, out, refresh, requests) ==
    [act |-> act, args |-> args, out |-> out, refresh |-> refresh,
     requests |-> requests]

----------------------------------------------------------------------------
(* mumbleLinkCheckLoop, block by block *)

\* plugin.cpp:410 with the comparison inverted
OnlineTransition_Inverted(t) ==
    IF ~prevIsOnline /\ t - lastOffline < onlineStateTransmissionThreshold
    THEN TRUE
    ELSE linked

\* plugin.cpp:410 with > for >=
OnlineTransition_Strict(t) ==
    IF ~prevIsOnline /\ t - lastOffline > onlineStateTransmissionThreshold
    THEN TRUE
    ELSE linked

\* plugin.cpp:410-413
OnlineTransition(t) ==
    IF ~prevIsOnline /\ t - lastOffline >= onlineStateTransmissionThreshold
    THEN TRUE
    ELSE linked

\* plugin.cpp:422-427
IdentityFields(info, id) ==
    [info EXCEPT !.characterName = id.name,
                 !.profession = id.profession,
                 !.mapId = id.map_id,
                 !.worldId = id.world_id,
                 !.teamColorId = id.team_color_id,
                 !.commander = id.commander]

\* Gw2Api::getMap(mapId, &map) succeeds: the source answers and knows the map
KnownMaps == {15, 18}
GetMap(answers, mapId) == answers /\ mapId \in KnownMaps

\* plugin.cpp:433-446
MapFields(info, answers) ==
    IF GetMap(answers, info.mapId)
    THEN [info EXCEPT !.mapName = MapEntry(info.mapId).map_name,
                      !.regionId = MapEntry(info.mapId).region_id,
                      !.regionName = MapEntry(info.mapId).region_name,
                      !.continentId = MapEntry(info.mapId).continent_id,
                      !.continentName = MapEntry(info.mapId).continent_name]
    ELSE [info EXCEPT !.mapName = <<"Map", info.mapId>>,
                      !.regionId = 0,
                      !.regionName = <<"Unknown region">>,
                      !.continentId = 0,
                      !.continentName = <<"Unknown continent">>]

\* plugin.cpp:449-454
WorldFields(info, answers) ==
    IF answers /\ info.worldId \in KnownWorlds
    THEN [info EXCEPT !.worldName = WorldName(info.worldId)]
    ELSE [info EXCEPT !.worldName = <<"World", info.worldId>>]

\* plugin.cpp:456 without the time threshold
IdentityDirty_Ungated(t) == TRUE

\* plugin.cpp:456-459
IdentityDirty(t) ==
    t - lastTransmissionTime >= locationTransmissionThreshold

\* plugin.cpp:467-472
ContinentPosition(info, pos, answers) ==
    IF GetMap(answers, info.mapId)
    THEN [info EXCEPT !.characterContinentPosition =
                          toContinentPosition(pos, info.mapId)]
    ELSE info

\* plugin.cpp:476-489
WaypointFields(info, answers) ==
    IF answers /\ Len(Waypoints(info.mapId)) > 0
    THEN LET waypoint ==
                 ClosestWaypoint(info.characterContinentPosition, info.mapId)
         IN [info EXCEPT !.waypointId = waypoint.poi_id,
                         !.waypointName =
                             IF waypoint.name # << >>
                             THEN waypoint.name
                             ELSE <<"Waypoint", waypoint.poi_id>>,
                         !.waypointContinentPosition = waypoint.coord]
    ELSE [info EXCEPT !.waypointId = 0,
                      !.waypointName = << >>,
                      !.waypointContinentPosition = ZeroVector2D]

\* plugin.cpp:491-492 without the distance threshold
PositionDirty_NoDistance(t, pos) ==
    t - lastTransmissionTime >= locationTransmissionThreshold

\* plugin.cpp:491-492 with > for >= on the distance
PositionDirty_Strict(t, pos) ==
    /\ t - lastTransmissionTime >= locationTransmissionThreshold
    /\ DistanceAtLeast(toVector2D(pos), prevDistancePosition,
                       distanceTransmissionThreshold + 1)

\* plugin.cpp:491-492
PositionDirty(t, pos) ==
    /\ t - lastTransmissionTime >= locationTransmissionThreshold
    /\ DistanceAtLeast(toVector2D(pos), prevDistancePosition,
                       distanceTransmissionThreshold)

\* plugin.cpp:507 without the debounce window
OfflineTransition_NoWindow(t, offlineSince) == linked

\* plugin.cpp:507, with lastOffline as line 503 left it
OfflineTransition(t, offlineSince) ==
    linked /\ t - offlineSince >= onlineStateTransmissionThreshold

\* plugin.cpp:517-520
Transmit(updated, info, t) ==
    /\ lastTransmissionTime' = IF updated THEN t ELSE lastTransmissionTime
    /\ IF updated
       THEN \E handler \in CurrentHandlers :
              step' = Step("mumbleLinkCheckLoop", << >>,
                           << Sent(handler, info, "SERVER", 0) >>,
                           << >>, << >>)
       ELSE step' = Step("mumbleLinkCheckLoop", << >>, << >>, << >>, << >>)

\* plugin.cpp:462-500 and 515-520: the position block and the end of an
\* online tick; info is the record and updated the flag as the identity
\* block left them
PositionBlock(info, updated, id, pos) ==
    \E mapAnswers, poiAnswers \in
          IF pos # prevAvatarPosition THEN BOOLEAN ELSE {TRUE} :
        LET changed == pos # prevAvatarPosition
            info2 == IF changed
                     THEN WaypointFields(
                              ContinentPosition(info, pos, mapAnswers),
                              poiAnswers)
                     ELSE info
            dirty == changed /\ PositionDirty(now, pos)
        IN /\ gw2Info' = info2
           /\ prevDistancePosition' =
                  IF dirty THEN toVector2D(pos) ELSE prevDistancePosition
           /\ prevIdentity' = id
           /\ prevAvatarPosition' = pos
           /\ prevIsOnline' = TRUE
           /\ Transmit(updated \/ dirty, info2, now)

\* plugin.cpp:409-428: an online tick up to the identity block; when the
\* identity changed the thread goes on to the map and world lookups
PollOnline ==
    \E id \in Identities, pos \in Positions :
      /\ linked' = OnlineTransition(now)
      /\ lastOffline' = 0
      /\ IF id # prevIdentity
         THEN /\ gw2Info' = IdentityFields(gw2Info, id)
              /\ pc' = "lookup"
              /\ newIdentity' = id
              /\ newAvatarPosition' = pos
              /\ step' = Step("mumbleLinkCheckLoop", << >>, << >>, << >>, << >>)
              /\ UNCHANGED << lastTransmissionTime, prevIsOnline, prevIdentity,
                              prevAvatarPosition, prevDistancePosition >>
         ELSE /\ PositionBlock(gw2Info, FALSE, id, pos)
              /\ UNCHANGED << pc, newIdentity, newAvatarPosition >>

\* plugin.cpp:501-520 with the broadcast of the cleared record held back
\* until locationTransmissionThreshold has passed since the last one
PollOffline_Gated ==
      LET offlineSince == IF prevIsOnline THEN now ELSE lastOffline
          unlink == OfflineTransition(now, offlineSince)
          info == IF unlink THEN ClearedInfo ELSE gw2Info
      IN /\ lastOffline' = offlineSince
         /\ linked' = IF unlink THEN FALSE ELSE linked
         /\ gw2Info' = info
         /\ prevIsOnline' = FALSE
         /\ Transmit(unlink /\ IdentityDirty(now), info, now)
         /\ UNCHANGED << pc, prevIdentity, prevAvatarPosition,
                         prevDistancePosition, newIdentity, newAvatarPosition >>

\* plugin.cpp:501-520: an offline tick
PollOffline ==
      LET offlineSince == IF prevIsOnline THEN now ELSE lastOffline
          unlink == OfflineTransition(now, offlineSince)
          info == IF unlink THEN ClearedInfo ELSE gw2Info
      IN /\ lastOffline' = offlineSince
         /\ linked' = IF unlink THEN FALSE ELSE linked
         /\ gw2Info' = info
         /\ prevIsOnline' = FALSE
         /\ Transmit(unlink, info, now)
         /\ UNCHANGED << pc, prevIdentity, prevAvatarPosition,
                         prevDistancePosition, newIdentity, newAvatarPosition >>

\* plugin.cpp:404-428, 462-523: one iteration of the loop from the sample of
\* the feed; it ends the tick unless the identity changed
PollTick ==
    /\ hThread = "running"
    /\ pc = "sleep"
    /\ ~threadStopRequested
    \* isActive() && isGW2(): isGW2 is called only when isActive holds
    /\ \E isActive \in BOOLEAN :
       \E isGW2 \in IF isActive THEN BOOLEAN ELSE {FALSE} :
         LET newIsOnline == isActive /\ isGW2
         IN /\ rawHeld' = IF rawHeld.value = newIsOnline
                           THEN rawHeld
                           ELSE [value |-> newIsOnline, for |-> 0]
            /\ IF newIsOnline THEN PollOnline ELSE PollOffline
    /\ UNCHANGED << now, hostVars, stopVars >>

\* plugin.cpp:429-523: the rest of a tick whose identity changed
PollLookup ==
    /\ hThread = "running"
    /\ pc = "lookup"
    /\ \E mapAnswers, worldAnswers \in BOOLEAN :
         PositionBlock(WorldFields(MapFields(gw2Info, mapAnswers), worldAnswers),
                       IdentityDirty(now), newIdentity, newAvatarPosition)
    /\ pc' = "sleep"
    /\ newIdentity' = DefaultIdentity
    /\ newAvatarPosition' = ZeroVector3D
    /\ UNCHANGED << now, linked, lastOffline, rawHeld >>
    /\ UNCHANGED << hostVars, stopVars >>

\* plugin.cpp:404, 524: the loop condition finds the stop flag set and the
\* thread returns
LoopExit ==
    /\ hThread = "running"
    /\ pc = "sleep"
    /\ threadStopRequested
    /\ hThread' = "exited"
    /\ UNCHANGED << now, trackerVars, gw2Info, hostVars, threadStopRequested,
                    shutdownPc, step, rawHeld >>

\* the clock advances while the threads sleep or wait
AdvanceTime ==
    /\ now < MaxTime
    /\ now' = now + 1
    /\ rawHeld' = [rawHeld EXCEPT
                       !.for = Min(@ + 1, onlineStateTransmissionThreshold)]
    /\ UNCHANGED << trackerVars, gw2Info, hostVars, stopVars, step >>

----------------------------------------------------------------------------
(* Wire protocol: plugin commands as the host delivers them.               *)
(* A command text is the tuple of its words, the command name first; a     *)
(* client id is written as the tuple of its number, a JSON payload as      *)
(* <<"{", record, "}">>.                                                    *)

CMD_NONE == "CMD_NONE"
CMD_GW2INFO == "CMD_GW2INFO"
CMD_REQUESTGW2INFO == "CMD_REQUESTGW2INFO"

\* Commands::parseCommand(pluginCommand, commandType, commandParameters)
parseCommand(pluginCommand) ==
    [commandType |->
         IF pluginCommand = << >> THEN CMD_NONE
         ELSE IF Head(pluginCommand) = "GW2Info" THEN CMD_GW2INFO
         ELSE IF Head(pluginCommand) = "RequestGW2Info" THEN CMD_REQUESTGW2INFO
         ELSE CMD_NONE,
     commandParameters |->
         IF pluginCommand = << >> THEN << >> ELSE Tail(pluginCommand)]

\* atoi on the text of a client id
atoi(text) == IF Len(text) = 1 THEN text[1] ELSE 0

\* the JSON text Commands::sendGW2Info writes for a record
Json(info) == <<"{", info, "}">>

\* a payload is well-formed when it is a whole JSON object
WellFormed(jsonString) ==
    /\ Len(jsonString) = 3
    /\ jsonString[1] = "{"
    /\ jsonString[3] = "}"

\* Gw2Info(jsonString): the record a payload decodes to; decoding a
\* malformed payload does not raise and leaves the record cleared
Decode(jsonString) ==
    IF WellFormed(jsonString) THEN jsonString[2] ELSE ClearedInfo

\* Gw2RemoteInfo(jsonString, serverConnectionHandlerID, clientID)
Gw2RemoteInfo(jsonString, serverConnectionHandlerID, clientID) ==
    [info |-> Decode(jsonString),
     serverConnectionHandlerID |-> serverConnectionHandlerID,
     clientID |-> clientID]

\* a populated record, as a peer in the game sends it
PeerInfo ==
    WaypointFields(
        ContinentPosition(
            WorldFields(
                MapFields(
                    IdentityFields(ClearedInfo,
                        MumbleIdentity(<<"Bob">>, 5, 15, 1001, 0, FALSE)),
                    TRUE),
                TRUE),
            Vector3D(1, 0, 0), TRUE),
        TRUE)

\* payloads on the wire: whole, truncated, garbled
Payloads == { Json(PeerInfo), <<"{", PeerInfo>>, <<"#">> }

ClientTexts == { <<c>> : c \in Clients }

\* the plugin commands the host delivers
PluginCommands ==
    { <<"GW2Info", c, j>> : c \in ClientTexts, j \in Payloads }
      \cup { <<"GW2Info", c>> : c \in ClientTexts }
      \cup { <<"RequestGW2Info", c>> : c \in ClientTexts }
      \cup { <<"RequestGW2Info">>, <<"RequestGW2Info", <<1>>, <<2>> >>,
             <<"Hello", <<1>> >> }

----------------------------------------------------------------------------
(* Gw2RemoteInfoContainer: a map keyed by <<session, participant>> *)

\* Gw2RemoteInfoContainer::updateRemoteGW2Info
updateRemoteGW2Info(container, remoteInfo) ==
    LET key == << remoteInfo.serverConnectionHandlerID, remoteInfo.clientID >>
    IN [k \in DOMAIN container \cup {key} |->
            IF k = key THEN remoteInfo ELSE container[k]]

\* Gw2RemoteInfoContainer::removeRemoteGW2InfoRecord
removeRemoteGW2InfoRecord(container, serverConnectionHandlerID, clientID) ==
    [k \in DOMAIN container \ { <<serverConnectionHandlerID, clientID>> } |->
        container[k]]

\* Gw2RemoteInfoContainer::removeAllRemoteGW2InfoRecords
removeAllRemoteGW2InfoRecords(container, serverConnectionHandlerID) ==
    [k \in { q \in DOMAIN container : q[1] # serverConnectionHandlerID } |->
        container[k]]

----------------------------------------------------------------------------
(* The ts3plugin_* callbacks, run by the host thread *)

\* enum ConnectStatus (public_definitions.h)
STATUS_DISCONNECTED == "STATUS_DISCONNECTED"
STATUS_CONNECTING == "STATUS_CONNECTING"
STATUS_CONNECTION_ESTABLISHED == "STATUS_CONNECTION_ESTABLISHED"
ConnectStatuses ==
    { STATUS_DISCONNECTED, STATUS_CONNECTING, STATUS_CONNECTION_ESTABLISHED }

\* enum PluginItemType (plugin_definitions.h)
PLUGIN_SERVER == 0
PLUGIN_CHANNEL == 1
PLUGIN_CLIENT == 2
PluginItemTypes == { PLUGIN_SERVER, PLUGIN_CHANNEL, PLUGIN_CLIENT }

\* ids of the items the info frame can show
ItemIds == 0..2

\* the callbacks leave the polling thread and the local record alone
HostFrame == UNCHANGED << now, trackerVars, gw2Info, rawHeld, stopVars >>

\* plugin.cpp:361-368 (release build): checkForUpdates starts a thread
checkForUpdates ==
    /\ updateThreads < MaxUpdateThreads
    /\ updateThreads' = updateThreads + 1

\* plugin.cpp:357-359: the refreshes updateInfoPanel requests
updateInfoPanel(handler) ==
    IF infoDataType > 0 /\ infoDataId > 0
    THEN << [session |-> handler, type |-> infoDataType, id |-> infoDataId] >>
    ELSE << >>

\* plugin.cpp:280-292 without the update check on an established connection
onConnectStatusChangeEvent_NoUpdateCheck(serverConnectionHandlerID, newStatus) ==
    /\ gw2RemoteInfoContainer' =
           IF newStatus = STATUS_DISCONNECTED
           THEN removeAllRemoteGW2InfoRecords(gw2RemoteInfoContainer,
                                              serverConnectionHandlerID)
           ELSE gw2RemoteInfoContainer
    /\ step' = Step("ts3plugin_onConnectStatusChangeEvent",
                    << serverConnectionHandlerID, newStatus >>,
                    << >>, << >>, << >>)
    /\ UNCHANGED << infoDataType, infoDataId, lastUpdateCheck, updateThreads >>
    /\ HostFrame

\* plugin.cpp:280-292 with the eviction under the wrong case label
onConnectStatusChangeEvent_WrongCase(serverConnectionHandlerID, newStatus) ==
    /\ IF newStatus = STATUS_CONNECTING
       THEN /\ gw2RemoteInfoContainer' =
                   removeAllRemoteGW2InfoRecords(gw2RemoteInfoContainer,
                                                 serverConnectionHandlerID)
            /\ UNCHANGED updateThreads
       ELSE IF newStatus = STATUS_CONNECTION_ESTABLISHED
       THEN /\ checkForUpdates
            /\ UNCHANGED gw2RemoteInfoContainer
       ELSE UNCHANGED << gw2RemoteInfoContainer, updateThreads >>
    /\ step' = Step("ts3plugin_onConnectStatusChangeEvent",
                    << serverConnectionHandlerID, newStatus >>,
                    << >>, << >>, << >>)
    /\ UNCHANGED << infoDataType, infoDataId, lastUpdateCheck >>
    /\ HostFrame

\* plugin.cpp:280-292
onConnectStatusChangeEvent(serverConnectionHandlerID, newStatus) ==
    /\ IF newStatus = STATUS_DISCONNECTED
       THEN /\ gw2RemoteInfoContainer' =
                   removeAllRemoteGW2InfoRecords(gw2RemoteInfoContainer,
                                                 serverConnectionHandlerID)
            /\ UNCHANGED updateThreads
       ELSE IF newStatus = STATUS_CONNECTION_ESTABLISHED
       THEN /\ checkForUpdates
            /\ UNCHANGED gw2RemoteInfoContainer
       ELSE UNCHANGED << gw2RemoteInfoContainer, updateThreads >>
    /\ step' = Step("ts3plugin_onConnectStatusChangeEvent",
                    << serverConnectionHandlerID, newStatus >>,
                    << >>, << >>, << >>)
    /\ UNCHANGED << infoDataType, infoDataId, lastUpdateCheck >>
    /\ HostFrame

\* plugin.cpp:294-297 evicting the whole session
onClientKickFromServerEvent_RemoveAll(serverConnectionHandlerID, clientID) ==
    /\ gw2RemoteInfoContainer' =
           removeAllRemoteGW2InfoRecords(gw2RemoteInfoContainer,
                                         serverConnectionHandlerID)
    /\ step' = Step("ts3plugin_onClientKickFromServerEvent",
                    << serverConnectionHandlerID, clientID >>,
                    << >>, << >>, << >>)
    /\ UNCHANGED << infoDataType, infoDataId, lastUpdateCheck, updateThreads >>
    /\ HostFrame

\* plugin.cpp:294-297
onClientKickFromServerEvent(serverConnectionHandlerID, clientID) ==
    /\ gw2RemoteInfoContainer' =
           removeRemoteGW2InfoRecord(gw2RemoteInfoContainer,
                                     serverConnectionHandlerID, clientID)
    /\ step' = Step("ts3plugin_onClientKickFromServerEvent",
                    << serverConnectionHandlerID, clientID >>,
                    << >>, << >>, << >>)
    /\ UNCHANGED << infoDataType, infoDataId, lastUpdateCheck, updateThreads >>
    /\ HostFrame

\* plugin.cpp:311-314
onServerStopEvent(serverConnectionHandlerID) ==
    /\ gw2RemoteInfoContainer' =
           removeAllRemoteGW2InfoRecords(gw2RemoteInfoContainer,
                                         serverConnectionHandlerID)
    /\ step' = Step("ts3plugin_onServerStopEvent",
                    << serverConnectionHandlerID >>, << >>, << >>, << >>)
    /\ UNCHANGED << infoDataType, infoDataId, lastUpdateCheck, updateThreads >>
    /\ HostFrame

\* plugin.cpp:318-355 with the parameter count of a request not checked
\* (line 344): the first parameter is answered whatever follows it
onPluginCommandEvent_NoCountCheck(serverConnectionHandlerID, pluginCommand) ==
    LET parsed == parseCommand(pluginCommand)
        commandType == parsed.commandType
        commandParameters == parsed.commandParameters
        args == << serverConnectionHandlerID, pluginCommand >>
        act == "ts3plugin_onPluginCommandEvent"
    IN /\ IF commandType = CMD_GW2INFO /\ Len(commandParameters) = 2
          THEN LET clientID == atoi(commandParameters[1])
                   jsonString == commandParameters[2]
                   gw2RemoteInfo == Gw2RemoteInfo(jsonString,
                                        serverConnectionHandlerID, clientID)
               IN /\ gw2RemoteInfoContainer' =
                         updateRemoteGW2Info(gw2RemoteInfoContainer,
                                             gw2RemoteInfo)
                  /\ \E handler \in CurrentHandlers :
                       step' = Step(act, args, << >>,
                                    updateInfoPanel(handler), << >>)
          ELSE IF commandType = CMD_REQUESTGW2INFO /\ Len(commandParameters) >= 1
          THEN LET clientID == atoi(commandParameters[1])
               IN /\ step' = Step(act, args,
                                  << Sent(serverConnectionHandlerID, gw2Info,
                                          "CLIENT", clientID) >>,
                                  << >>, << >>)
                  /\ UNCHANGED gw2RemoteInfoContainer
          ELSE /\ step' = Step(act, args, << >>, << >>, << >>)
               /\ UNCHANGED gw2RemoteInfoContainer
       /\ UNCHANGED << infoDataType, infoDataId, lastUpdateCheck, updateThreads >>
       /\ HostFrame

\* plugin.cpp:318-355 with the reply of line 351 sent to the whole server
onPluginCommandEvent_Broadcast(serverConnectionHandlerID, pluginCommand) ==
    LET parsed == parseCommand(pluginCommand)
        commandType == parsed.commandType
        commandParameters == parsed.commandParameters
        args == << serverConnectionHandlerID, pluginCommand >>
        act == "ts3plugin_onPluginCommandEvent"
    IN /\ IF commandType = CMD_GW2INFO /\ Len(commandParameters) = 2
          THEN LET clientID == atoi(commandParameters[1])
                   jsonString == commandParameters[2]
                   gw2RemoteInfo == Gw2RemoteInfo(jsonString,
                                        serverConnectionHandlerID, clientID)
               IN /\ gw2RemoteInfoContainer' =
                         updateRemoteGW2Info(gw2RemoteInfoContainer,
                                             gw2RemoteInfo)
                  /\ \E handler \in CurrentHandlers :
                       step' = Step(act, args, << >>,
                                    updateInfoPanel(handler), << >>)
          ELSE IF commandType = CMD_REQUESTGW2INFO /\ Len(commandParameters) = 1
          THEN /\ step' = Step(act, args,
                               << Sent(serverConnectionHandlerID, gw2Info,
                                       "SERVER", 0) >>,
                               << >>, << >>)
               /\ UNCHANGED gw2RemoteInfoContainer
          ELSE /\ step' = Step(act, args, << >>, << >>, << >>)
               /\ UNCHANGED gw2RemoteInfoContainer
       /\ UNCHANGED << infoDataType, infoDataId, lastUpdateCheck, updateThreads >>
       /\ HostFrame

\* plugin.cpp:318-355
onPluginCommandEvent(serverConnectionHandlerID, pluginCommand) ==
    LET parsed == parseCommand(pluginCommand)
        commandType == parsed.commandType
        commandParameters == parsed.commandParameters
        args == << serverConnectionHandlerID, pluginCommand >>
        act == "ts3plugin_onPluginCommandEvent"
    IN /\ IF commandType = CMD_GW2INFO /\ Len(commandParameters) = 2
          THEN LET clientID == atoi(commandParameters[1])
                   jsonString == commandParameters[2]
                   gw2RemoteInfo == Gw2RemoteInfo(jsonString,
                                        serverConnectionHandlerID, clientID)
               IN /\ gw2RemoteInfoContainer' =
                         updateRemoteGW2Info(gw2RemoteInfoContainer,
                                             gw2RemoteInfo)
                  /\ \E handler \in CurrentHandlers :
                       step' = Step(act, args, << >>,
                                    updateInfoPanel(handler), << >>)
          ELSE IF commandType = CMD_REQUESTGW2INFO /\ Len(commandParameters) = 1
          THEN LET clientID == atoi(commandParameters[1])
               IN /\ step' = Step(act, args,
                                  << Sent(serverConnectionHandlerID, gw2Info,
                                          "CLIENT", clientID) >>,
                                  << >>, << >>)
                  /\ UNCHANGED gw2RemoteInfoContainer
          ELSE /\ step' = Step(act, args, << >>, << >>, << >>)
               /\ UNCHANGED gw2RemoteInfoContainer
       /\ UNCHANGED << infoDataType, infoDataId, lastUpdateCheck, updateThreads >>
       /\ HostFrame

\* plugin.cpp:234-255 with the request of line 253 not guarded by isNew
infoData_AlwaysRequest(serverConnectionHandlerID, clientID, type) ==
    /\ infoDataType' = type
    /\ infoDataId' = clientID
    /\ step' = Step("ts3plugin_infoData",
                    << serverConnectionHandlerID, clientID, type >>,
                    << >>, << >>,
                    IF type = PLUGIN_CLIENT
                    THEN << [session |-> serverConnectionHandlerID,
                             target |-> "CLIENT", client |-> clientID] >>
                    ELSE << >>)
    /\ UNCHANGED << gw2RemoteInfoContainer, lastUpdateCheck, updateThreads >>
    /\ HostFrame

\* plugin.cpp:234-255
infoData(serverConnectionHandlerID, clientID, type) ==
    LET isNew == infoDataId # clientID
    IN /\ infoDataType' = type
       /\ infoDataId' = clientID
       /\ step' = Step("ts3plugin_infoData",
                       << serverConnectionHandlerID, clientID, type >>,
                       << >>, << >>,
                       IF isNew /\ type = PLUGIN_CLIENT
                       THEN << [session |-> serverConnectionHandlerID,
                                target |-> "CLIENT", client |-> clientID] >>
                       ELSE << >>)
       /\ UNCHANGED << gw2RemoteInfoContainer, lastUpdateCheck, updateThreads >>
       /\ HostFrame

\* plugin.cpp:370-387: a thread started by checkForUpdates runs
checkForUpdatesAsync ==
    /\ updateThreads > 0
    /\ updateThreads' = updateThreads - 1
    /\ \E throws \in BOOLEAN :
         lastUpdateCheck' =
             IF now - lastUpdateCheck >= updateCheckDelay /\ ~throws
             THEN now
             ELSE lastUpdateCheck
    /\ step' = Step("checkForUpdatesAsync", << >>, << >>, << >>, << >>)
    /\ UNCHANGED << gw2RemoteInfoContainer, infoDataType, infoDataId >>
    /\ HostFrame

----------------------------------------------------------------------------
(* ts3plugin_shutdown, run by the host thread; it blocks in                *)
(* WaitForSingleObject while the polling thread goes on                    *)

\* the results of WaitForSingleObject(hThread, 1000) the switch tells apart
WAIT_OBJECT_0 == "WAIT_OBJECT_0"
WAIT_TIMEOUT == "WAIT_TIMEOUT"
WAIT_FAILED == "WAIT_FAILED"

\* a wait without a timeout returns only when the thread has exited
WaitForSingleObject_Infinite(threadReturn) ==
    threadReturn = WAIT_OBJECT_0 /\ hThread = "exited"

\* WaitForSingleObject(hThread, 1000) returns: the thread has exited, or the
\* second has passed without that, or the wait failed
WaitForSingleObject(threadReturn) ==
    \/ threadReturn = WAIT_OBJECT_0 /\ hThread = "exited"
    \/ threadReturn = WAIT_TIMEOUT /\ hThread = "running"
    \/ threadReturn = WAIT_FAILED

\* plugin.cpp:119-126: shutdown sets the stop flag and starts to wait
ShutdownRequestStop ==
    /\ shutdownPc = "idle"
    /\ threadStopRequested' = TRUE
    /\ shutdownPc' = "waiting"
    /\ step' = Step("ts3plugin_shutdown", << >>, << >>, << >>, << >>)
    /\ UNCHANGED << now, trackerVars, gw2Info, hostVars, hThread, rawHeld >>

\* plugin.cpp:126-158 without the TerminateThread of lines 145-148: a thread
\* that was not seen to exit is left running
ShutdownWaitReturns_NoTerminate ==
    /\ shutdownPc = "waiting"
    /\ \E threadReturn \in { WAIT_OBJECT_0, WAIT_TIMEOUT, WAIT_FAILED } :
         WaitForSingleObject(threadReturn)
    /\ gw2Info' = ClearedInfo
    /\ \E handler \in CurrentHandlers :
         step' = Step("ts3plugin_shutdown", << >>,
                      IF handler # 0
                      THEN << Sent(handler, ClearedInfo, "SERVER", 0) >>
                      ELSE << >>,
                      << >>, << >>)
    /\ shutdownPc' = "done"
    /\ UNCHANGED << now, trackerVars, hostVars, threadStopRequested, hThread,
                    rawHeld >>

\* plugin.cpp:126-158: the wait returns; a thread that was not seen to exit
\* is terminated; the record is cleared and, with a server connection, sent
ShutdownWaitReturns ==
    /\ shutdownPc = "waiting"
    /\ \E threadReturn \in { WAIT_OBJECT_0, WAIT_TIMEOUT, WAIT_FAILED } :
         /\ WaitForSingleObject(threadReturn)
         /\ LET threadClosed == threadReturn = WAIT_OBJECT_0
            IN hThread' = IF ~threadClosed /\ hThread = "running"
                          THEN "terminated"
                          ELSE hThread
    /\ gw2Info' = ClearedInfo
    /\ \E handler \in CurrentHandlers :
         step' = Step("ts3plugin_shutdown", << >>,
                      IF handler # 0
                      THEN << Sent(handler, ClearedInfo, "SERVER", 0) >>
                      ELSE << >>,
                      << >>, << >>)
    /\ shutdownPc' = "done"
    /\ UNCHANGED << now, trackerVars, hostVars, threadStopRequested, rawHeld >>

----------------------------------------------------------------------------
Init ==
    /\ now = StartTime
    /\ pc = "sleep"
    /\ lastTransmissionTime = 0
    /\ lastOffline = 0
    /\ linked = FALSE
    /\ prevIsOnline = FALSE
    /\ prevIdentity = DefaultIdentity
    /\ prevAvatarPosition = ZeroVector3D
    /\ prevDistancePosition = ZeroVector2D
    /\ newIdentity = DefaultIdentity
    /\ newAvatarPosition = ZeroVector3D
    /\ gw2Info = ClearedInfo
    /\ gw2RemoteInfoContainer = << >>
    /\ infoDataType = 0
    /\ infoDataId = 0
    /\ lastUpdateCheck = 0
    /\ updateThreads = 0
    /\ threadStopRequested = FALSE
    /\ hThread = "running"
    /\ shutdownPc = "idle"
    /\ step = Step("ts3plugin_init", << >>, << >>, << >>, << >>)
    /\ rawHeld = [value |-> FALSE, for |-> 0]

\* the polling thread and the clock
NextTracker == PollTick \/ PollLookup \/ AdvanceTime

\* a peer asks for the local record: client 1 of server connection 1
PeerRequest == onPluginCommandEvent(1, <<"RequestGW2Info", <<1>> >>)

\* any peer of any session asks for the local record
PeerRequests ==
    \E s \in ServerIds, c \in ClientTexts :
        onPluginCommandEvent(s, <<"RequestGW2Info", c>>)

\* the events the host delivers
ConnectStatusChange ==
    \E s \in ServerIds, status \in ConnectStatuses :
        onConnectStatusChangeEvent(s, status)
ClientKick ==
    \E s \in ServerIds, c \in Clients : onClientKickFromServerEvent(s, c)
ServerStop == \E s \in ServerIds : onServerStopEvent(s)
PluginCommand ==
    \E s \in ServerIds, cmd \in PluginCommands : onPluginCommandEvent(s, cmd)
InfoData ==
    \E s \in ServerIds, id \in ItemIds, type \in PluginItemTypes :
        infoData(s, id, type)

NextHost ==
    \/ ConnectStatusChange
    \/ ClientKick
    \/ ServerStop
    \/ PluginCommand
    \/ InfoData
    \/ checkForUpdatesAsync

\* the plugin is unloaded
NextStop == LoopExit \/ ShutdownRequestStop \/ ShutdownWaitReturns

Next == NextTracker \/ NextHost \/ NextStop

\* the whole plugin
Spec == Init /\ [][Next]_vars

\* the polling thread alone
SpecTracker == Init /\ [][NextTracker]_vars

\* the polling thread, scheduled fairly, under a clock that advances
SpecTrackerFair ==
    /\ Init
    /\ [][NextTracker]_vars
    /\ WF_vars(PollTick)
    /\ WF_vars(PollLookup)
    /\ WF_vars(AdvanceTime)

\* the polling thread and the presence requests of peers, which the host
\* thread answers from the record the polling thread writes
SpecRace == Init /\ [][NextTracker \/ PeerRequest]_vars

\* the callbacks of the host thread
SpecHost == Init /\ [][NextHost]_vars

\* the polling thread within one second of the clock and the unloading of
\* the plugin; a wait that has started returns
SpecStop ==
    /\ Init
    /\ [][PollTick \/ PollLookup \/ NextStop]_vars
    /\ WF_vars(ShutdownWaitReturns)

\* the polling thread within one second of the clock and the presence
\* requests of all peers
SpecReply == Init /\ [][PollTick \/ PollLookup \/ PeerRequests]_vars

----------------------------------------------------------------------------
(* Reading a step of the polling loop off a pair of states *)

LoopAct == "mumbleLinkCheckLoop"

\* the identity fields of a record, as a MumbleIdentity
IdentityOf(info) ==
    MumbleIdentity(info.characterName, info.profession, info.mapId,
                   info.worldId, info.teamColorId, info.commander)

\* this step ends a tick that sampled rawOnline = TRUE and saw a new position
OnlineTickNewPosition ==
    /\ pc' = "sleep"
    /\ prevIsOnline'
    /\ prevAvatarPosition' # prevAvatarPosition

\* this step is a step of the polling loop that transmitted
LoopTransmits ==
    /\ step'.act = LoopAct
    /\ step'.out # << >>
    /\ (step'.out # step.out \/ lastTransmissionTime' # lastTransmissionTime)

\* this step is a step of the polling loop that sampled rawOnline = FALSE
OfflineTick ==
    /\ step'.act = LoopAct
    /\ now' = now
    /\ pc = "sleep"
    /\ ~prevIsOnline'
    /\ ~rawHeld'.value

----------------------------------------------------------------------------
(* C1 as the specification states it: the tracker turns Online only at a   *)
(* tick at which rawOnline has been continuously true for at least         *)
(* onlineStateTransmissionThreshold.                                       *)
C1_OnlineAfterContinuousTrue ==
    [][ (~linked /\ linked') =>
          (rawHeld'.value /\ rawHeld'.for >= onlineStateTransmissionThreshold)
      ]_vars

(* C1 as the code has it: the tracker turns Online only at a tick that     *)
(* samples rawOnline true right after a tick that sampled it false (or at  *)
(* the first tick), and only when at least the threshold has passed since  *)
(* the recorded offline time (0 when none is recorded); it does not wait   *)
(* for rawOnline to stay true.                                             *)
C1_OnlineOnRisingEdge ==
    [][ (~linked /\ linked') =>
          /\ ~rawHeld.value
          /\ rawHeld'.value
          /\ rawHeld'.for = 0
          /\ now - lastOffline >= onlineStateTransmissionThreshold
      ]_vars

\* the tracker has just turned Online at the first true sample, after the
\* clock has advanced over false samples
C1_Witness ==
    /\ linked
    /\ prevIsOnline
    /\ rawHeld = [value |-> TRUE, for |-> 0]
    /\ now > StartTime

(* C2: the tracker turns Offline only at a tick at which it was Online and *)
(* rawOnline has been sampled false continuously for at least the          *)
(* threshold since the first false tick; a tick that samples false before  *)
(* that leaves the record and linked alone and transmits nothing, and a    *)
(* tick that samples true leaves an Online tracker Online.                 *)
C2_OfflineDebounce ==
    [][ /\ (linked /\ ~linked') =>
              /\ ~rawHeld'.value
              /\ rawHeld'.for >= onlineStateTransmissionThreshold
              /\ gw2Info' = ClearedInfo
        /\ (OfflineTick /\ rawHeld'.for < onlineStateTransmissionThreshold) =>
              /\ gw2Info' = gw2Info
              /\ linked' = linked
              /\ step'.out = << >>
              /\ lastTransmissionTime' = lastTransmissionTime
        /\ (linked /\ rawHeld'.value) => linked'
      ]_vars

\* an Online tracker inside a false interval shorter than the threshold,
\* its record still populated
C2_Witness ==
    /\ linked
    /\ ~prevIsOnline
    /\ rawHeld.value = FALSE
    /\ rawHeld.for > 0
    /\ rawHeld.for < onlineStateTransmissionThreshold
    /\ gw2Info # ClearedInfo
    /\ lastOffline > 0

(* C3: a tick that samples rawOnline true, sees the identity unchanged and *)
(* the position changed, and finds the new position closer to the baseline *)
(* prevDistancePosition than distanceTransmissionThreshold transmits       *)
(* nothing, whatever the time since the last transmission.                 *)
C3_DistanceSuppresses ==
    [][ ( /\ OnlineTickNewPosition
          /\ pc = "sleep"
          /\ ~DistanceAtLeast(toVector2D(prevAvatarPosition'),
                              prevDistancePosition,
                              distanceTransmissionThreshold) ) =>
          /\ step'.out = << >>
          /\ lastTransmissionTime' = lastTransmissionTime
          /\ prevDistancePosition' = prevDistancePosition
      ]_vars

\* a position one unit from the baseline was taken in without a
\* transmission although the time threshold had long passed
C3_Witness ==
    /\ pc = "sleep"
    /\ prevIsOnline
    /\ step = Step(LoopAct, << >>, << >>, << >>, << >>)
    /\ lastTransmissionTime > 0
    /\ now - lastTransmissionTime >= locationTransmissionThreshold
    /\ getDistanceSq(toVector2D(prevAvatarPosition), prevDistancePosition) = 1
    /\ gw2Info.characterContinentPosition =
           toContinentPosition(prevAvatarPosition, gw2Info.mapId)

(* C4: a tick that samples rawOnline true and sees the position changed,   *)
(* with at least locationTransmissionThreshold since the last transmission *)
(* and at least distanceTransmissionThreshold from the baseline, sends the *)
(* record to the server target exactly once and stamps                     *)
(* lastTransmissionTime, whether or not the identity changed too.          *)
C4_DistanceTriggers ==
    [][ ( /\ OnlineTickNewPosition
          /\ now - lastTransmissionTime >= locationTransmissionThreshold
          /\ DistanceAtLeast(toVector2D(prevAvatarPosition'),
                             prevDistancePosition,
                             distanceTransmissionThreshold) ) =>
          /\ Len(step'.out) = 1
          /\ step'.out[1].target = "SERVER"
          /\ step'.out[1].info = gw2Info'
          /\ lastTransmissionTime' = now'
      ]_vars

\* a transmission made after the clock has advanced, for a displacement
\* of at least the distance threshold from the baseline
C4_Witness ==
    /\ pc = "sleep"
    /\ prevIsOnline
    /\ Len(step.out) = 1
    /\ step.out[1].info = gw2Info
    /\ gw2Info # ClearedInfo
    /\ lastTransmissionTime = now
    /\ now > StartTime
    /\ prevAvatarPosition = Vector3D(3, 0, 0)
    /\ prevDistancePosition = toVector2D(prevAvatarPosition)

(* C5: a transmission of the polling loop on a tick that samples rawOnline *)
(* true happens only when at least locationTransmissionThreshold has       *)
(* passed since the previous transmission of the loop; an identity change  *)
(* seen earlier than that is written to the record and transmits nothing.  *)
C5_MinimumInterval ==
    [][ /\ (LoopTransmits /\ prevIsOnline') =>
              now - lastTransmissionTime >= locationTransmissionThreshold
        /\ ( /\ pc = "lookup"
             /\ pc' = "sleep"
             /\ now - lastTransmissionTime < locationTransmissionThreshold ) =>
              /\ step'.out = << >>
              /\ IdentityOf(gw2Info') = newIdentity
              /\ prevIdentity' = newIdentity
      ]_vars

\* a new identity has been taken into the record less than the time
\* threshold after a transmission, and nothing was transmitted
C5_Witness ==
    /\ pc = "sleep"
    /\ prevIsOnline
    /\ step = Step(LoopAct, << >>, << >>, << >>, << >>)
    /\ lastTransmissionTime > 0
    /\ now - lastTransmissionTime < locationTransmissionThreshold
    /\ IdentityOf(gw2Info) = prevIdentity
    /\ gw2Info.mapId = 18

----------------------------------------------------------------------------
(* Reading a callback of the host thread off a step *)

ConnectAct == "ts3plugin_onConnectStatusChangeEvent"
KickAct == "ts3plugin_onClientKickFromServerEvent"
StopAct == "ts3plugin_onServerStopEvent"
CommandAct == "ts3plugin_onPluginCommandEvent"

\* the map and world fields of a record derive from its identity fields
\* (or the record is in the state Gw2Info::clear() leaves)
ConsistentSnapshot(info) ==
    \/ /\ IdentityOf(info) = DefaultIdentity
       /\ info.mapName = << >>
       /\ info.worldName = << >>
    \/ /\ info.mapName \in { MapEntry(info.mapId).map_name,
                             <<"Map", info.mapId>> }
       /\ info.worldName \in { WorldName(info.worldId),
                               <<"World", info.worldId>> }

\* the container restricted to the keys of the other sessions
WithoutSession(container, session) ==
    [k \in { q \in DOMAIN container : q[1] # session } |-> container[k]]

\* the container restricted to the keys other than key
WithoutKey(container, key) ==
    [k \in DOMAIN container \ {key} |-> container[k]]

\* the step after this state is the command callback with a GW2Info
\* command of two parameters
GW2InfoCommandStep ==
    /\ step'.act = CommandAct
    /\ parseCommand(step'.args[2]).commandType = CMD_GW2INFO
    /\ Len(parseCommand(step'.args[2]).commandParameters) = 2

(* C6: every record handed to Commands::sendGW2Info, by the broadcast of   *)
(* the polling loop or by the reply to a presence request, is a consistent *)
(* snapshot: its map and world fields derive from its identity fields.     *)
C6_SentRecordsConsistent ==
    \A i \in 1..Len(step.out) : ConsistentSnapshot(step.out[i].info)

(* C7 as the specification states it: when the host reports               *)
(* STATUS_CONNECTION_ESTABLISHED for a session, the local record is sent   *)
(* to the peers of that session.                                           *)
C7_EstablishedBroadcasts ==
    [][ ( /\ step'.act = ConnectAct
          /\ step'.args[2] = STATUS_CONNECTION_ESTABLISHED ) =>
          /\ Len(step'.out) = 1
          /\ step'.out[1].session = step'.args[1]
          /\ step'.out[1].info = gw2Info
      ]_vars

(* C7 as the code has it: on STATUS_CONNECTION_ESTABLISHED the callback    *)
(* starts the check for a new plugin version and nothing else: it sends no *)
(* record and leaves the local record and the peer cache alone.            *)
C7_EstablishedChecksForUpdates ==
    [][ ( /\ step'.act = ConnectAct
          /\ step'.args[2] = STATUS_CONNECTION_ESTABLISHED ) =>
          /\ step'.out = << >>
          /\ step'.requests = << >>
          /\ gw2Info' = gw2Info
          /\ gw2RemoteInfoContainer' = gw2RemoteInfoContainer
          /\ updateThreads' = updateThreads + 1
      ]_vars

\* an established connection has started an update check while peers'
\* records are cached
C7_Witness ==
    /\ step.act = ConnectAct
    /\ step.args[2] = STATUS_CONNECTION_ESTABLISHED
    /\ updateThreads = 1
    /\ gw2RemoteInfoContainer # << >>

(* C8: after STATUS_DISCONNECTED or a server stop for session S the peer   *)
(* cache holds no entry of S and every entry of another session is as it   *)
(* was.                                                                    *)
C8_SessionEviction ==
    [][ ( \/ /\ step'.act = ConnectAct
             /\ step'.args[2] = STATUS_DISCONNECTED
          \/ step'.act = StopAct ) =>
          gw2RemoteInfoContainer' =
              WithoutSession(gw2RemoteInfoContainer, step'.args[1])
      ]_vars

\* session 2 was disconnected and the whole record of participant 1 of
\* session 1 is still cached
C8_Witness ==
    /\ step.act = ConnectAct
    /\ step.args = << 2, STATUS_DISCONNECTED >>
    /\ << 1, 1 >> \in DOMAIN gw2RemoteInfoContainer
    /\ gw2RemoteInfoContainer[<< 1, 1 >>].info = PeerInfo
    /\ \A k \in DOMAIN gw2RemoteInfoContainer : k[1] = 1

(* C9: when participant p is kicked from session S the entry (S, p) is     *)
(* evicted and every other entry is as it was; an entry comes into the     *)
(* cache only by a GW2Info command for its session and participant.        *)
C9_ParticipantEviction ==
    [][ /\ (step'.act = KickAct) =>
              gw2RemoteInfoContainer' =
                  WithoutKey(gw2RemoteInfoContainer,
                             << step'.args[1], step'.args[2] >>)
        /\ \A k \in DOMAIN gw2RemoteInfoContainer' :
              k \notin DOMAIN gw2RemoteInfoContainer =>
                  /\ GW2InfoCommandStep
                  /\ k = << step'.args[1],
                            atoi(parseCommand(step'.args[2])
                                     .commandParameters[1]) >>
      ]_vars

\* participant 1 of session 1 was kicked while participant 2 of the same
\* session stays cached
C9_Witness ==
    /\ step.act = KickAct
    /\ step.args = << 1, 1 >>
    /\ DOMAIN gw2RemoteInfoContainer = { << 1, 2 >> }
    /\ gw2RemoteInfoContainer[<< 1, 2 >>].info = PeerInfo

(* C10: a GW2Info command of two parameters whose payload is truncated or  *)
(* garbled is dropped: no entry of the peer cache is inserted or changed.  *)
C10_MalformedDropped ==
    [][ ( /\ GW2InfoCommandStep
          /\ ~WellFormed(parseCommand(step'.args[2]).commandParameters[2]) ) =>
          gw2RemoteInfoContainer' = gw2RemoteInfoContainer
      ]_vars

----------------------------------------------------------------------------
\* the command of this step is one the callback does not act on: an unknown
\* command, a GW2Info command without exactly two parameters or a
\* RequestGW2Info command without exactly one
IgnoredCommandStep ==
    /\ step'.act = CommandAct
    /\ LET parsed == parseCommand(step'.args[2])
       IN \/ parsed.commandType = CMD_NONE
          \/ /\ parsed.commandType = CMD_GW2INFO
             /\ Len(parsed.commandParameters) # 2
          \/ /\ parsed.commandType = CMD_REQUESTGW2INFO
             /\ Len(parsed.commandParameters) # 1

(* C11: a command of unknown kind, a GW2Info command whose parameter count *)
(* is not 2 and a RequestGW2Info command whose parameter count is not 1    *)
(* leave the peer cache and the local record as they were, send nothing    *)
(* and request no refresh of the info panel.                               *)
C11_IgnoredCommandsNoOp ==
    [][ IgnoredCommandStep =>
          /\ gw2RemoteInfoContainer' = gw2RemoteInfoContainer
          /\ gw2Info' = gw2Info
          /\ step'.out = << >>
          /\ step'.refresh = << >>
          /\ step'.requests = << >>
      ]_vars

\* a request with one parameter too many was ignored while a client is
\* shown in the info panel and a peer's record is cached
C11_Witness ==
    /\ step.act = CommandAct
    /\ step.args[2] = <<"RequestGW2Info", <<1>>, <<2>> >>
    /\ step.out = << >>
    /\ infoDataType > 0
    /\ infoDataId > 0
    /\ gw2RemoteInfoContainer # << >>

----------------------------------------------------------------------------
\* the command of this step is a RequestGW2Info command of one parameter
RequestCommandStep ==
    /\ step'.act = CommandAct
    /\ parseCommand(step'.args[2]).commandType = CMD_REQUESTGW2INFO
    /\ Len(parseCommand(step'.args[2]).commandParameters) = 1

(* C12: on a RequestGW2Info command with exactly one parameter, received   *)
(* in session S and naming participant p, the callback sends the local     *)
(* record as it is at that moment exactly once, to the client target with  *)
(* p as the only addressee in session S, and changes neither the peer      *)
(* cache nor the local record.                                             *)
C12_RequestReply ==
    [][ RequestCommandStep =>
          /\ step'.out =
                << Sent(step'.args[1], gw2Info, "CLIENT",
                        atoi(parseCommand(step'.args[2]).commandParameters[1]))
                >>
          /\ step'.refresh = << >>
          /\ gw2RemoteInfoContainer' = gw2RemoteInfoContainer
          /\ gw2Info' = gw2Info
      ]_vars

\* participant 2 of session 2 asked and was sent the populated record of a
\* player who is in the game
C12_Witness ==
    /\ step.act = CommandAct
    /\ step.args = << 2, <<"RequestGW2Info", <<2>> >> >>
    /\ Len(step.out) = 1
    /\ step.out[1].info = gw2Info
    /\ pc = "sleep"
    /\ linked
    /\ gw2Info.mapName = MapEntry(18).map_name
    /\ gw2Info.waypointId # 0

----------------------------------------------------------------------------
\* the previous step rendered the info panel for a client: that client is
\* the participant on display
DisplayedKey == << step.args[1], step.args[2] >>
ClientDisplayed ==
    /\ step.act = "ts3plugin_infoData"
    /\ step.args[3] = PLUGIN_CLIENT
    /\ step.args[2] > 0

\* the cache entry of key is inserted, replaced or evicted by this step
EntryChanges(key) ==
    \/ (key \in DOMAIN gw2RemoteInfoContainer)
          # (key \in DOMAIN gw2RemoteInfoContainer')
    \/ /\ key \in DOMAIN gw2RemoteInfoContainer
       /\ key \in DOMAIN gw2RemoteInfoContainer'
       /\ gw2RemoteInfoContainer'[key] # gw2RemoteInfoContainer[key]

(* C13: whenever the cache entry of the participant on display changes, by *)
(* the upsert of a GW2Info command, by the eviction of a kicked            *)
(* participant or by the eviction of a whole session on disconnect or      *)
(* server stop, the step requests a refresh of the info panel for that     *)
(* participant.                                                            *)
C13_RefreshOnChange ==
    [][ (ClientDisplayed /\ EntryChanges(DisplayedKey)) =>
          /\ step'.refresh # << >>
          /\ step'.refresh[1].id = DisplayedKey[2]
          /\ step'.refresh[1].type = PLUGIN_CLIENT
      ]_vars

----------------------------------------------------------------------------
(* C14: once threadStopRequested is set the polling loop starts no new     *)
(* tick: a thread between two ticks changes none of its state and none of  *)
(* the record, and a thread inside a tick only finishes it; the thread is  *)
(* terminated only by a shutdown whose wait did not see it exit; and a     *)
(* shutdown that has set the flag always completes with the thread no      *)
(* longer running, also when a lookup of the loop is in flight and never   *)
(* returns.                                                                *)
C14_CooperativeStop ==
    /\ [][ /\ (threadStopRequested /\ pc = "sleep") =>
                  /\ UNCHANGED << trackerVars, rawHeld >>
                  /\ (gw2Info' # gw2Info => shutdownPc' = "done")
           /\ (threadStopRequested /\ pc = "lookup") =>
                  \/ UNCHANGED << trackerVars, gw2Info >>
                  \/ pc' = "sleep" /\ hThread = "running"
                  \/ shutdownPc' = "done" /\ hThread' # "running"
           /\ (hThread # "terminated" /\ hThread' = "terminated") =>
                  /\ hThread = "running"
                  /\ shutdownPc = "waiting"
                  /\ shutdownPc' = "done"
         ]_vars
    /\ (threadStopRequested ~> (shutdownPc = "done" /\ hThread # "running"))

\* a shutdown has completed by terminating the thread while the lookups
\* of an identity change were in flight
C14_Witness ==
    /\ shutdownPc = "done"
    /\ hThread = "terminated"
    /\ pc = "lookup"
    /\ newIdentity \in Identities

----------------------------------------------------------------------------
(* C15: after every transmission the polling loop makes on a tick that     *)
(* samples rawOnline true, the baseline prevDistancePosition is the avatar *)
(* position of that tick, whether the position block or the identity block *)
(* made the tick transmit.                                                 *)
C15_TransmittedBaseline ==
    [][ (LoopTransmits /\ pc' = "sleep" /\ prevIsOnline') =>
          prevDistancePosition' = toVector2D(prevAvatarPosition')
      ]_vars

(* C16: a tick that samples rawOnline false and turns the tracker Offline  *)
(* clears the record and sends the cleared record to the server target     *)
(* exactly once, however short the time since the last transmission;       *)
(* every other tick that samples rawOnline false sends nothing and leaves  *)
(* the record, linked and lastTransmissionTime as they were.               *)
C16_OneClearedRecordPerTransition ==
    [][ /\ OfflineTick =>
              IF linked /\ ~linked'
              THEN /\ gw2Info' = ClearedInfo
                   /\ Len(step'.out) = 1
                   /\ step'.out[1].info = ClearedInfo
                   /\ step'.out[1].target = "SERVER"
                   /\ lastTransmissionTime' = now
              ELSE /\ step'.out = << >>
                   /\ gw2Info' = gw2Info
                   /\ linked' = linked
                   /\ lastTransmissionTime' = lastTransmissionTime
        /\ (linked /\ ~linked') => OfflineTick
      ]_vars

\* the tracker has just turned Offline, the debounce window (shorter than
\* locationTransmissionThreshold) after the game went away, and the cleared
\* record went out on server connection 1
C16_Witness ==
    /\ step.act = LoopAct
    /\ ~linked
    /\ ~prevIsOnline
    /\ prevIdentity \in Identities
    /\ gw2Info = ClearedInfo
    /\ step.out = << Sent(1, ClearedInfo, "SERVER", 0) >>
    /\ lastTransmissionTime = now
    /\ now - lastOffline = onlineStateTransmissionThreshold
    /\ onlineStateTransmissionThreshold < locationTransmissionThreshold

----------------------------------------------------------------------------
\* this step ends a tick that saw a new identity
IdentityTickEnds ==
    /\ pc = "lookup"
    /\ pc' = "sleep"

(* C17: a tick that saw a new identity and found the map source            *)
(* unavailable ends with mapName = "Map <mapId>", regionId = 0 and         *)
(* continentId = 0 (and a world source that is unavailable or lacks the id *)
(* gives worldName = "World <worldId>"), and the map source is not asked   *)
(* again within the tick: nothing the map source delivers enters the       *)
(* record on that tick, so the continent position stays as it was.         *)
C17_LookupFailureFallback ==
    [][ ( /\ IdentityTickEnds
          /\ gw2Info'.mapId \in KnownMaps
          /\ gw2Info'.mapName = <<"Map", gw2Info'.mapId>> ) =>
          /\ gw2Info'.regionId = 0
          /\ gw2Info'.continentId = 0
          /\ gw2Info'.worldName \in { WorldName(gw2Info'.worldId),
                                      <<"World", gw2Info'.worldId>> }
          /\ gw2Info'.characterContinentPosition =
                gw2Info.characterContinentPosition
      ]_vars

----------------------------------------------------------------------------
\* the last tick sampled rawOnline true and read identity id from the feed,
\* and the time threshold leaves the loop free to transmit
FeedSettledAt(id) ==
    /\ pc = "sleep"
    /\ prevIsOnline
    /\ prevIdentity = id
    /\ now - lastTransmissionTime >= locationTransmissionThreshold

\* the last step of the polling loop broadcast a record with identity id
BroadcastCarries(id) ==
    /\ step.act = LoopAct
    /\ Len(step.out) = 1
    /\ IdentityOf(step.out[1].info) = id

(* C18: if from some tick on every tick samples rawOnline true and reads   *)
(* the same identity I from the feed, with the time threshold passed, then *)
(* at some time the polling loop broadcasts a record that carries I.       *)
C18_PeersLearnIdentity ==
    \A id \in Identities :
        <>[]FeedSettledAt(id) => <>BroadcastCarries(id)

----------------------------------------------------------------------------
(* C19: at the end of every tick that sampled rawOnline true the identity  *)
(* fields of the local record (characterName, profession, mapId, worldId,  *)
(* teamColorId, commander) are the identity read from the feed on that     *)
(* tick, also on the ticks after an Offline transition has cleared the     *)
(* record and the game has come back with the identity it had before.      *)
C19_RecordTracksFeed ==
    (pc = "sleep" /\ prevIsOnline) => IdentityOf(gw2Info) = prevIdentity

----------------------------------------------------------------------------
(* C20: with the thresholds fixed, whenever the tracker is Offline         *)
(* (linked = FALSE) the local record is fully cleared; and every tick that *)
(* samples rawOnline true leaves the tracker Online, from the moment the   *)
(* tick first writes the record.                                           *)
C20_OfflineImpliesEmpty ==
    /\ ~linked => gw2Info = ClearedInfo
    /\ (prevIsOnline \/ pc = "lookup") => linked

\* the tracker was Online with a populated record, has turned Offline and
\* has sampled rawOnline false again since: the record is cleared
C20_Witness ==
    /\ pc = "sleep"
    /\ ~linked
    /\ ~prevIsOnline
    /\ prevIdentity \in Identities
    /\ step = Step(LoopAct, << >>, << >>, << >>, << >>)
    /\ lastTransmissionTime > StartTime
    /\ gw2Info = ClearedInfo

----------------------------------------------------------------------------
ShutdownAct == "ts3plugin_shutdown"

(* C21: when ts3plugin_shutdown clears the local record and sends the      *)
(* offline record, the polling thread is no longer running (it has exited  *)
(* or has been terminated); with a server connection the record sent is    *)
(* the cleared one, to the server target; and after that the polling loop  *)
(* writes nothing and transmits nothing, so the cleared record is the last *)
(* one sent.                                                               *)
C21_ShutdownOrdering ==
    [][ /\ (shutdownPc # "done" /\ shutdownPc' = "done") =>
              /\ hThread' # "running"
              /\ gw2Info' = ClearedInfo
              /\ step'.act = ShutdownAct
              /\ \/ step'.out = << >>
                 \/ /\ Len(step'.out) = 1
                    /\ step'.out[1].info = ClearedInfo
                    /\ step'.out[1].target = "SERVER"
                    /\ step'.out[1].session # 0
        /\ shutdownPc = "done" =>
              /\ hThread # "running"
              /\ gw2Info' = gw2Info
              /\ step' = step
              /\ UNCHANGED trackerVars
      ]_vars

\* shutdown has completed after the thread of an Online tracker exited by
\* itself, and the cleared record went out on server connection 1
C21_Witness ==
    /\ shutdownPc = "done"
    /\ hThread = "exited"
    /\ linked
    /\ prevIsOnline
    /\ prevIdentity \in Identities
    /\ gw2Info = ClearedInfo
    /\ step = Step(ShutdownAct, << >>,
                   << Sent(1, ClearedInfo, "SERVER", 0) >>, << >>, << >>)

----------------------------------------------------------------------------
InfoDataAct == "ts3plugin_infoData"

\* this step renders the info panel
InfoDataStep == step'.act = InfoDataAct

\* this step renders the item whose refresh the previous step requested
ReRenderStep ==
    /\ InfoDataStep
    /\ step.refresh # << >>
    /\ step'.args[2] = step.refresh[1].id
    /\ step'.args[3] = step.refresh[1].type

(* C22: rendering the info panel issues a RequestGW2Info exactly when the  *)
(* item id differs from the id rendered before and the item is a client,   *)
(* and then one request, to that client; so the render that follows the    *)
(* refresh a GW2Info upsert has requested issues no request, and no other  *)
(* callback issues one.                                                    *)
C22_NoRequestLoop ==
    [][ /\ InfoDataStep =>
              /\ step'.requests =
                    IF infoDataId # step'.args[2] /\ step'.args[3] = PLUGIN_CLIENT
                    THEN << [session |-> step'.args[1], target |-> "CLIENT",
                             client |-> step'.args[2]] >>
                    ELSE << >>
              /\ step'.refresh = << >>
        /\ ReRenderStep => step'.requests = << >>
        /\ (step'.act # InfoDataAct) => step'.requests = << >>
      ]_vars

\* client 1 of session 1 was rendered again after its record had been
\* cached, and no request went out
C22_Witness ==
    /\ step.act = InfoDataAct
    /\ step.args = << 1, 1, PLUGIN_CLIENT >>
    /\ step.requests = << >>
    /\ infoDataId = 1
    /\ infoDataType = PLUGIN_CLIENT
    /\ << 1, 1 >> \in DOMAIN gw2RemoteInfoContainer
    /\ gw2RemoteInfoContainer[<< 1, 1 >>].info = PeerInfo

====
